---- MODULE Spec2Model ----
(***************************************************************************)
(* The breach-minigame search tree of breachman: Tile, Buffer, Grid,       *)
(* SequenceState and Node of core.py, and the traversals _validate_node    *)
(* and _solve of terminal.py.                                              *)
(*                                                                         *)
(* Python values are modelled as follows.  A tuple or list is a sequence   *)
(* (1-based here, 0-based in the source; row and col of a Tile keep the    *)
(* source's 0-based numbers).  An object is a record of its attributes.    *)
(* An Optional value is a record [is_none, val].  A raised exception is an *)
(* outcome of its own: "raised" fields and the pc value "raised".          *)
(***************************************************************************)
EXTENDS Integers, Sequences, FiniteSets, TLC

\* Bounds of the explored inputs.
MaxDim == 2
MaxCap == 4
MaxSeqLen == 2
MaxPathLen == 3
MaxScanLen == 4

\* The tokens of the explored boards (two of the tokens of EXAMPLE_MATRIX).
Tokens == {"1C", "55"}

\* grid, seq, max_size: the arguments of play and solve_grid.
\* node: the Node at hand.  pc: where the program is.
\* sequence_state: a SequenceState evaluated on its own.
\* heap, stack: the Buffer objects allocated so far and the frames of the
\* Node constructors under way, while a tree is built step by step.
\* board: a Grid constructed on its own.  output: what the program has
\* reported so far (the lines it printed, the views it returned).  choice:
\* the index read by play.
VARIABLES grid, seq, max_size, node, pc, sequence_state, heap, stack,
          board, output, choice

vars == <<grid, seq, max_size, node, pc, sequence_state, heap, stack,
          board, output, choice>>

\* All sequences over S with a length in lo..hi.
SeqsOver(S, lo, hi) == UNION {[1..n -> S] : n \in lo..hi}

(***************************************************************************)
(* Optional values: None, or a value.                                      *)
(***************************************************************************)
None == [is_none |-> TRUE, val |-> <<>>]

Some(v) == [is_none |-> FALSE, val |-> v]

\* Python truthiness of an Optional list: None and [] are falsy.
Truthy(o) == ~o.is_none /\ Len(o.val) > 0

(***************************************************************************)
(* Tile                                                                    *)
(***************************************************************************)
Tile(val, row, col) == [val |-> val, row |-> row, col |-> col]

\* Hashes.  hash(Tile) is the hash of the pair (row, col); the hash of a str
\* is that string's own.  The two kinds of hash are kept apart: the hash of
\* a pair of small integers does not coincide with a string's.
TileHash(t) == [kind |-> "tuple", row |-> t.row, col |-> t.col, str |-> ""]

StrHash(s) == [kind |-> "str", row |-> 0, col |-> 0, str |-> s]

\* Tile.__eq__: equal hashes.
TileEq(t, other_hash) == TileHash(t) = other_hash

(***************************************************************************)
(* Buffer.  A Buffer object is its state, the tuple of its tiles; a heap   *)
(* of Buffer objects is a sequence of them, an object's id its index.      *)
(***************************************************************************)
Buffer(state) == state

BufferContains(state, item) == \E i \in 1..Len(state) : TileEq(item, TileHash(state[i]))

\* Buffer.add on the heap h: a new object is allocated, the receiver is not
\* assigned to.  The new object is the last of the resulting heap.
BufferAddInPlace(h, self, other) ==
    Append([h EXCEPT ![self] = @ \o <<other>>], h[self] \o <<other>>)

BufferAdd(h, self, other) == Append(h, Buffer(h[self] \o <<other>>))

\* self.buffer.add(candidate) where only the returned object matters.
AddedBuffer(state, other) ==
    LET h == BufferAdd(<<state>>, 1, other) IN h[Len(h)]

(***************************************************************************)
(* Grid                                                                    *)
(***************************************************************************)
GridRows(matrix) ==
    [ri \in 1..Len(matrix) |->
        [ci \in 1..Len(matrix[ri]) |-> Tile(matrix[ri][ci], ri - 1, ci - 1)]]

\* One column list per ROW of the matrix (len(self.rows) of them); column
\* index collects, row by row, the tiles whose col is index.
GridColumns(rows) ==
    [index \in 1..Len(rows) |->
        LET Has(ri) == Len(rows[ri]) >= index
            rs == SelectSeq([ri \in 1..Len(rows) |-> ri], Has)
        IN  [k \in 1..Len(rs) |-> rows[rs[k]][index]]]

Grid(matrix) == [rows |-> GridRows(matrix), columns |-> GridColumns(GridRows(matrix))]

GetRow(g, index) == g.rows[index + 1]

\* self.columns[index] raises IndexError past the end of the list.
GetColRaises(g, index) == index + 1 > Len(g.columns)

GetCol(g, index) == g.columns[index + 1]

(***************************************************************************)
(* SequenceState                                                           *)
(***************************************************************************)
Remaining(s, solved_count) == Len(s) - solved_count

SeqState(s, solved_count, success, failed, raised) ==
    [seq |-> s, solved_count |-> solved_count, success |-> success,
     failed |-> failed, raised |-> raised]

FirstMatchLast(s, buff) ==
    LET hits == {i \in 1..Len(buff) : buff[i].val = s[1]}
    IN  IF hits = {} THEN 0 ELSE CHOOSE i \in hits : \A j \in hits : i >= j

\* The first loop: the position of the first tile whose val is seq[0], 0 for
\* none.
FirstMatch(s, buff) ==
    LET hits == {i \in 1..Len(buff) : buff[i].val = s[1]}
    IN  IF hits = {} THEN 0 ELSE CHOOSE i \in hits : \A j \in hits : i <= j

\* The second loop, at the tile of position k with solved_count elements
\* matched.  self.seq[self._solved_count] raises IndexError when every
\* element is matched already (a target of one token).
RECURSIVE ScanRestFlipped(_, _, _, _, _)
ScanRestFlipped(s, buff, k, solved_count, cap) ==
    IF k > Len(buff)
    THEN SeqState(s, solved_count, FALSE, FALSE, FALSE)
    ELSE IF solved_count >= Len(s)
    THEN SeqState(s, solved_count, FALSE, FALSE, TRUE)
    ELSE IF buff[k].val = s[solved_count + 1]
    THEN IF solved_count + 1 = Len(s)
         THEN SeqState(s, solved_count + 1, TRUE, FALSE, FALSE)
         ELSE ScanRestFlipped(s, buff, k + 1, solved_count + 1, cap)
    ELSE IF cap > solved_count + Remaining(s, solved_count)
    THEN SeqState(s, solved_count, FALSE, TRUE, FALSE)
    ELSE ScanRestFlipped(s, buff, k + 1, solved_count, cap)

RECURSIVE ScanRestSlots(_, _, _, _, _)
ScanRestSlots(s, buff, k, solved_count, cap) ==
    IF k > Len(buff)
    THEN SeqState(s, solved_count, FALSE, FALSE, FALSE)
    ELSE IF solved_count >= Len(s)
    THEN SeqState(s, solved_count, FALSE, FALSE, TRUE)
    ELSE IF buff[k].val = s[solved_count + 1]
    THEN IF solved_count + 1 = Len(s)
         THEN SeqState(s, solved_count + 1, TRUE, FALSE, FALSE)
         ELSE ScanRestSlots(s, buff, k + 1, solved_count + 1, cap)
    ELSE IF cap - k < Remaining(s, solved_count)
    THEN SeqState(s, solved_count, FALSE, TRUE, FALSE)
    ELSE ScanRestSlots(s, buff, k + 1, solved_count, cap)

RECURSIVE ScanRest(_, _, _, _, _)
ScanRest(s, buff, k, solved_count, cap) ==
    IF k > Len(buff)
    THEN SeqState(s, solved_count, FALSE, FALSE, FALSE)
    ELSE IF solved_count >= Len(s)
    THEN SeqState(s, solved_count, FALSE, FALSE, TRUE)
    ELSE IF buff[k].val = s[solved_count + 1]
    THEN IF solved_count + 1 = Len(s)
         THEN SeqState(s, solved_count + 1, TRUE, FALSE, FALSE)
         ELSE ScanRest(s, buff, k + 1, solved_count + 1, cap)
    ELSE IF cap < solved_count + Remaining(s, solved_count)
    THEN SeqState(s, solved_count, FALSE, TRUE, FALSE)
    ELSE ScanRest(s, buff, k + 1, solved_count, cap)

\* SequenceState.__init__; seq[0] raises IndexError on an empty target.
SequenceState(s, buff, cap) ==
    IF Len(s) = 0
    THEN SeqState(s, 0, FALSE, FALSE, TRUE)
    ELSE LET index == FirstMatch(s, buff)
         IN  IF index = 0
             THEN SeqState(s, 0, FALSE, FALSE, FALSE)
             ELSE ScanRest(s, buff, index + 1, 1, cap)

(***************************************************************************)
(* Node                                                                    *)
(***************************************************************************)
NextSelectionTypeSame(selection_type) == selection_type

NextSelectionType(selection_type) ==
    IF selection_type = "row" THEN "col" ELSE "row"

\* Node.__init__, up to the trailing access to self.children.
Node(g, buffer_state, cap, unlock_sequences, selection_type) ==
    [sequence_states |->
        [i \in 1..Len(unlock_sequences) |->
            SequenceState(unlock_sequences[i], buffer_state, cap)],
     buffer |-> buffer_state,
     unlock_sequences |-> unlock_sequences,
     max_size |-> cap,
     selection_type |-> selection_type,
     next_selection_type |-> NextSelectionType(selection_type),
     grid |-> g]

\* A SequenceState of the node raised while the node was constructed.
InitRaises(n) ==
    \E i \in 1..Len(n.sequence_states) : n.sequence_states[i].raised

LastSelection(n) == n.buffer[Len(n.buffer)]

\* Node.choices raises when get_col does.
ChoicesRaises(n) ==
    /\ Len(n.buffer) > 0
    /\ n.selection_type # "row"
    /\ GetColRaises(n.grid, LastSelection(n).col)

ChoicesUnfiltered(n) ==
    IF Len(n.buffer) = 0
    THEN n.grid.rows[1]
    ELSE IF n.selection_type = "row"
    THEN GetRow(n.grid, LastSelection(n).row)
    ELSE GetCol(n.grid, LastSelection(n).col)

ChoicesSwapped(n) ==
    IF Len(n.buffer) = 0
    THEN n.grid.rows[1]
    ELSE LET elements ==
                 IF n.selection_type = "row"
                 THEN GetCol(n.grid, LastSelection(n).col)
                 ELSE GetRow(n.grid, LastSelection(n).row)
             NotIn(i) == ~BufferContains(n.buffer, i)
         IN  SelectSeq(elements, NotIn)

Choices(n) ==
    IF Len(n.buffer) = 0
    THEN n.grid.rows[1]
    ELSE LET elements ==
                 IF n.selection_type = "row"
                 THEN GetRow(n.grid, LastSelection(n).row)
                 ELSE GetCol(n.grid, LastSelection(n).col)
             NotIn(i) == ~BufferContains(n.buffer, i)
         IN  SelectSeq(elements, NotIn)

SequenceIndex(n) == Len(n.buffer) + 1

\* The Counter of next_unlocks: a function from its keys (tokens) to counts.
NextUnlocks(n) ==
    LET unlock_index == SequenceIndex(n)
        us == n.unlock_sequences
        kept == {i \in 1..Len(us) : ~(unlock_index > Len(us[i]) - 1)}
        keys == {us[i][unlock_index + 1] : i \in kept}
    IN  [k \in keys |-> Cardinality({i \in kept : us[i][unlock_index + 1] = k})]

\* `obj in counter` and `counter.get(obj)` for an object of hash h: the key
\* whose hash is h.
CounterContains(counter, h) == \E k \in DOMAIN counter : StrHash(k) = h

CounterGet(counter, h) == counter[CHOOSE k \in DOMAIN counter : StrHash(k) = h]

\* sorted(s, key=..., reverse=True), keys[i] the key of s[i]: descending
\* keys, equal keys in their original order.
SortedReverse(s, keys) ==
    LET n == Len(s)
        Rank(i) == Cardinality({j \in 1..n :
                        keys[j] > keys[i] \/ (keys[j] = keys[i] /\ j < i)}) + 1
    IN  [p \in 1..n |-> s[CHOOSE i \in 1..n : Rank(i) = p]]

\* The membership test and the sort key both look the Tile itself up in the
\* Counter, whose keys are tokens.
PrimeCandidates(n) ==
    LET unlock_counts == NextUnlocks(n)
    IN  IF DOMAIN unlock_counts = {}
        THEN None
        ELSE LET In(c) == CounterContains(unlock_counts, TileHash(c))
                 kept == SelectSeq(Choices(n), In)
                 keys == [i \in 1..Len(kept) |->
                             CounterGet(unlock_counts, TileHash(kept[i]))]
             IN  Some(SortedReverse(kept, keys))

NextCandidatesUnbounded(n) == Some(Choices(n))

NextCandidatesLate(n) ==
    IF Len(n.buffer) = n.max_size THEN None ELSE Some(Choices(n))

NextCandidates(n) ==
    LET curr_size == Len(n.buffer)
        prime_candidates == PrimeCandidates(n)
    IN  IF curr_size = n.max_size
        THEN None
        ELSE IF curr_size = n.max_size - 1
        THEN IF Truthy(prime_candidates) THEN prime_candidates ELSE None
        ELSE Some(Choices(n))

\* The candidates the loop of Node.children runs over.
CandidateList(n) ==
    LET next_candidates == NextCandidates(n)
    IN  IF Truthy(next_candidates) THEN next_candidates.val ELSE <<>>

ChildrenReversed(n) ==
    LET cands == CandidateList(n)
    IN  [i \in 1..Len(cands) |->
            Node(n.grid, AddedBuffer(n.buffer, cands[Len(cands) + 1 - i]),
                 n.max_size, n.unlock_sequences, n.next_selection_type)]

Children(n) ==
    LET cands == CandidateList(n)
    IN  [i \in 1..Len(cands) |->
            Node(n.grid, AddedBuffer(n.buffer, cands[i]), n.max_size,
                 n.unlock_sequences, n.next_selection_type)]

IsComplete(n) ==
    \A i \in 1..Len(n.sequence_states) : n.sequence_states[i].success

\* Node.next_candidates reads self.choices unless the buffer is full or, one
\* slot short of full, next_unlocks is empty.
ChoicesRead(n) ==
    /\ Len(n.buffer) # n.max_size
    /\ Len(n.buffer) = n.max_size - 1 => DOMAIN NextUnlocks(n) # {}

\* Node.__init__ ends with self.children, so that constructing a node
\* constructs its whole subtree; the construction raises when any node of
\* the subtree does.
RECURSIVE TreeRaises(_)
TreeRaises(n) ==
    \/ InitRaises(n)
    \/ ChoicesRead(n) /\ ChoicesRaises(n)
    \/ /\ ~ChoicesRaises(n)
       /\ LET children == Children(n)
          IN  \E i \in 1..Len(children) : TreeRaises(children[i])

(***************************************************************************)
(* terminal.py                                                             *)
(***************************************************************************)
RECURSIVE ValidateNode(_)
ValidateNode(n) ==
    IF IsComplete(n)
    THEN TRUE
    ELSE LET children == Children(n)
         IN  \/ \E i \in 1..Len(children) : IsComplete(children[i])
             \/ \E i \in 1..Len(children) : ValidateNode(children[i])

RECURSIVE Solve(_)
RECURSIVE SolveChildren(_, _)
\* The loop of _solve over the children from the i-th on.
SolveChildren(children, i) ==
    IF i > Len(children)
    THEN <<>>
    ELSE Solve(children[i]) \o SolveChildren(children, i + 1)

SolvePruned(n) ==
    IF IsComplete(n)
    THEN <<n.buffer>>
    ELSE SolveChildren(Children(n), 1)

Solve(n) ==
    (IF IsComplete(n) THEN <<n.buffer>> ELSE <<>>)
        \o SolveChildren(Children(n), 1)

(***************************************************************************)
(* The walk of a tree: the root is constructed for some board, targets and *)
(* capacity, and the tree is then descended child by child.                *)
(***************************************************************************)
Boards == UNION {[1..d -> [1..d -> Tokens]] : d \in 1..MaxDim}

\* One target per explored puzzle; the example puzzle has three.
TargetLists == {<<s>> : s \in SeqsOver(Tokens, 1, MaxSeqLen)}

Root(matrix, unlock_sequences, cap) ==
    Node(Grid(matrix), Buffer(<<>>), cap, unlock_sequences, "row")

Init ==
    /\ grid \in Boards
    /\ seq \in TargetLists
    /\ max_size \in 1..MaxCap
    /\ node = <<>>
    /\ pc = "start"
    /\ sequence_state = <<>>
    /\ heap = <<>>
    /\ stack = <<>>
    /\ board = <<>>
    /\ output = <<>>
    /\ choice = <<>>

\* node = Node(grid=Grid(grid), unlock_sequences=seq, buffer_state=Buffer(),
\* max_size=max_size)
Construct ==
    /\ pc = "start"
    /\ IF TreeRaises(Root(grid, seq, max_size))
       THEN pc' = "raised" /\ node' = node
       ELSE pc' = "ready" /\ node' = Root(grid, seq, max_size)
    /\ UNCHANGED <<grid, seq, max_size, sequence_state, heap, stack, board,
                   output, choice>>

\* node = node.children[i], for any index i of the list
Select ==
    /\ pc = "ready"
    /\ LET children == Children(node)
       IN  \E i \in 1..Len(children) : node' = children[i]
    /\ UNCHANGED <<grid, seq, max_size, pc, sequence_state, heap, stack,
                   board, output, choice>>

Next ==
    \/ Construct
    \/ Select

Spec == Init /\ [][Next]_vars

(***************************************************************************)
(* What the claims speak of, stated on the inputs and not by the code.     *)
(***************************************************************************)
\* The tokens of a Path.
Vals(buff) == [i \in 1..Len(buff) |-> buff[i].val]

\* s occurs in p in order, not necessarily contiguously.
IsSubsequence(s, p) ==
    \E f \in [1..Len(s) -> 1..Len(p)] :
        /\ \A i, j \in 1..Len(s) : i < j => f[i] < f[j]
        /\ \A i \in 1..Len(s) : p[f[i]] = s[i]

\* No cell twice.
NoRepeat(buff) ==
    \A i, j \in 1..Len(buff) :
        i # j => <<buff[i].row, buff[i].col>> # <<buff[j].row, buff[j].col>>

\* The cells of row r (0-based) and of column c (0-based) of the input
\* matrix, in the matrix's order.
MatrixRow(matrix, r) ==
    [ci \in 1..Len(matrix[r + 1]) |-> Tile(matrix[r + 1][ci], r, ci - 1)]

MatrixCol(matrix, c) ==
    [ri \in 1..Len(matrix) |-> Tile(matrix[ri][c + 1], ri - 1, c)]

\* s without the cells of buff, order kept.
Without(s, buff) ==
    LET Fresh(t) == \A i \in 1..Len(buff) :
                        <<t.row, t.col>> # <<buff[i].row, buff[i].col>>
    IN  SelectSeq(s, Fresh)

\* A walk of the tree is under way: the root was constructed.
Ready == pc = "ready"

AtRoot == Ready /\ Len(node.buffer) = 0

(***************************************************************************)
(* C1                                                                      *)
(***************************************************************************)
\* C1 as stated: a reachable node has no children exactly when its Path has
\* length maxSize.
C1_ChildrenEmptyIffFull ==
    Ready => (Len(Children(node)) = 0 <=> Len(node.buffer) = node.max_size)

\* C1, amended: a reachable node with a child has a Path shorter than
\* maxSize, and a node whose Path is shorter than maxSize - 1 has a child
\* exactly when it has a legal choice.
C1_ChildrenBelowCapacity ==
    Ready =>
        /\ Len(Children(node)) > 0 => Len(node.buffer) < node.max_size
        /\ Len(node.buffer) < node.max_size - 1 =>
               (Len(Children(node)) > 0 <=> Len(Choices(node)) > 0)

\* A node short of capacity by two or more whose legal choices ran out.
C1_Witness ==
    /\ Ready
    /\ Len(node.buffer) > 0
    /\ Len(node.buffer) < node.max_size - 1
    /\ Len(Children(node)) = 0

(***************************************************************************)
(* C2                                                                      *)
(***************************************************************************)
\* C2: at a reachable node, for every target of length 1..maxSize, success
\* is reported exactly when the target is a subsequence of the Path's
\* tokens, and whenever the matched count is the target's length.
C2_SuccessIffSubsequence ==
    Ready =>
        \A s \in SeqsOver(Tokens, 1, node.max_size) :
            LET st == SequenceState(s, node.buffer, node.max_size)
            IN  /\ ~st.raised
                /\ st.success <=> IsSubsequence(s, Vals(node.buffer))
                /\ st.solved_count = Len(s) => st.success

(***************************************************************************)
(* C3                                                                      *)
(***************************************************************************)
\* The cells, as <<row, col>> pairs (0-based), a path may go on with: row 0
\* first, then the last cell's column and row in turn, no cell twice.
LegalNext(matrix, path) ==
    LET last == path[Len(path)]
        line == IF Len(path) = 0
                THEN {<<0, c>> : c \in 0..(Len(matrix[1]) - 1)}
                ELSE IF Len(path) % 2 = 1
                THEN {<<r, last[2]>> : r \in 0..(Len(matrix) - 1)}
                ELSE {<<last[1], c>> : c \in 0..(Len(matrix[1]) - 1)}
    IN  line \ {path[i] : i \in 1..Len(path)}

PathTokens(matrix, path) ==
    [i \in 1..Len(path) |-> matrix[path[i][1] + 1][path[i][2] + 1]]

\* path, or a legal continuation of it of at most cap cells, contains every
\* target as a subsequence.
RECURSIVE WinningFrom(_, _, _, _)
WinningFrom(matrix, targets, cap, path) ==
    \/ \A i \in 1..Len(targets) :
           IsSubsequence(targets[i], PathTokens(matrix, path))
    \/ /\ Len(path) < cap
       /\ \E c \in LegalNext(matrix, path) :
              WinningFrom(matrix, targets, cap, Append(path, c))

HasWinningPath(matrix, targets, cap) == WinningFrom(matrix, targets, cap, <<>>)

\* C3: the Solvability Check on the root is true exactly when the puzzle
\* has a winning path.
C3_ValidateIffWinningPath ==
    AtRoot => (ValidateNode(node) <=> HasWinningPath(grid, seq, max_size))

(***************************************************************************)
(* C5                                                                      *)
(***************************************************************************)
\* C5: legalChoices is the first row at the empty Path whatever the axis,
\* and otherwise the cells of the last cell's row (axis row) or column
\* (axis col) that are not in the Path, in the board's order.
C5_LegalChoices ==
    Ready =>
        IF Len(node.buffer) = 0
        THEN \A axis \in {"row", "col"} :
                 Choices([node EXCEPT !.selection_type = axis])
                     = MatrixRow(grid, 0)
        ELSE LET last == node.buffer[Len(node.buffer)]
             IN  Choices(node) =
                     Without(IF node.selection_type = "row"
                             THEN MatrixRow(grid, last.row)
                             ELSE MatrixCol(grid, last.col),
                             node.buffer)

\* A node three cells deep, whose axis is col: of the last cell's column one
\* cell is left, the others being in the Path.
C5_Witness ==
    /\ Ready
    /\ Len(node.buffer) = 3
    /\ Len(Choices(node)) = 1

(***************************************************************************)
(* C6                                                                      *)
(***************************************************************************)
\* C6: the Path of a reachable node holds no cell twice and is no longer
\* than maxSize.
C6_PathDistinctAndBounded ==
    Ready => NoRepeat(node.buffer) /\ Len(node.buffer) <= node.max_size

C6_Witness ==
    /\ Ready
    /\ Len(node.buffer) = 3
    /\ NoRepeat(node.buffer)

(***************************************************************************)
(* C7                                                                      *)
(***************************************************************************)
\* C7: c1 lies in row 0, c(k+1) shares the column of c(k) for odd k and the
\* row of c(k) for even k; the root's axis is row and a child's axis is the
\* opposite of its parent's.
C7_Alternation ==
    Ready =>
        LET p == node.buffer
        IN  /\ Len(p) > 0 => p[1].row = 0
            /\ \A k \in 1..(Len(p) - 1) :
                   IF k % 2 = 1
                   THEN p[k + 1].col = p[k].col
                   ELSE p[k + 1].row = p[k].row
            /\ Len(p) = 0 => node.selection_type = "row"
            /\ LET children == Children(node)
               IN  \A i \in 1..Len(children) :
                       children[i].selection_type
                           = (IF node.selection_type = "row"
                              THEN "col" ELSE "row")

\* A Path of three cells (a column step, then a row step) under a node that
\* still has a child.
C7_Witness ==
    /\ Ready
    /\ Len(node.buffer) = 2
    /\ Len(Children(node)) > 0
    /\ node.buffer[2].col = node.buffer[1].col
    /\ node.buffer[2].row # node.buffer[1].row

(***************************************************************************)
(* C10                                                                     *)
(***************************************************************************)
\* The prunedChoices of C10: the legal cells whose token is in nextNeeded,
\* by descending count of the token, ties in the board's order.
PrunedByToken(n) ==
    LET counts == NextUnlocks(n)
        Needed(c) == c.val \in DOMAIN counts
        kept == SelectSeq(Choices(n), Needed)
    IN  SortedReverse(kept, [i \in 1..Len(kept) |-> counts[kept[i].val]])

\* C10: one slot short of capacity, the candidate moves and the children
\* are exactly the legal cells whose token is in nextNeeded, in that order.
C10_LastMovePruning ==
    (Ready /\ Len(node.buffer) = node.max_size - 1) =>
        /\ CandidateList(node) = PrunedByToken(node)
        /\ Len(Children(node)) = Len(PrunedByToken(node))

(***************************************************************************)
(* C4: the example puzzle of core.py with the default capacity of play.    *)
(***************************************************************************)
EXAMPLE_MATRIX ==
    << <<"1C", "E9", "1C", "55", "1C">>,
       <<"E9", "55", "1C", "1C", "BD">>,
       <<"55", "BD", "1C", "BD", "55">>,
       <<"55", "1C", "55", "55", "1C">>,
       <<"E9", "1C", "1C", "1C", "55">> >>

EXAMPLE_UNLOCK_SEQUENCES ==
    << <<"55", "1C">>, <<"1C", "1C", "E9">>, <<"BD", "E9", "55">> >>

ExampleCap == 8

InitExample ==
    /\ grid = EXAMPLE_MATRIX
    /\ seq = EXAMPLE_UNLOCK_SEQUENCES
    /\ max_size = ExampleCap
    /\ node = <<>>
    /\ pc = "start"
    /\ sequence_state = <<>>
    /\ heap = <<>>
    /\ stack = <<>>
    /\ board = <<>>
    /\ output = <<>>
    /\ choice = <<>>

SpecExample == InitExample /\ [][Next]_vars

\* C4: on the example the Solvability Check of the root is true and the
\* Exhaustive Solver returns a Path of at most 8 cells that holds each of
\* the three targets, every TargetProgress of its node reporting success.
C4_ExampleSolvable ==
    AtRoot =>
        /\ ValidateNode(node)
        /\ LET solutions == Solve(node)
           IN  \E k \in 1..Len(solutions) :
                   /\ Len(solutions[k]) <= 8
                   /\ \A i \in 1..Len(seq) :
                          /\ IsSubsequence(seq[i], Vals(solutions[k]))
                          /\ SequenceState(seq[i], solutions[k], max_size).success

\* A node of the example's tree that is complete.
C4_Witness ==
    /\ Ready
    /\ grid = EXAMPLE_MATRIX
    /\ Len(node.buffer) <= 8
    /\ IsComplete(node)

(***************************************************************************)
(* SequenceState on its own: any target, any Path, any capacity.  The Path *)
(* is the tiles of a one-row matrix.                                       *)
(***************************************************************************)
InitSeq ==
    /\ grid \in {<<row>> : row \in SeqsOver(Tokens, 0, MaxPathLen)}
    /\ seq \in {<<s>> : s \in SeqsOver(Tokens, 1, MaxScanLen)}
    /\ max_size \in 1..MaxCap
    /\ node = <<>>
    /\ pc = "start"
    /\ sequence_state = <<>>
    /\ heap = <<>>
    /\ stack = <<>>
    /\ board = <<>>
    /\ output = <<>>
    /\ choice = <<>>

\* SequenceState(seq, buff, max_size)
Evaluate ==
    /\ pc = "start"
    /\ sequence_state' =
           SequenceState(seq[1], Buffer(GridRows(grid)[1]), max_size)
    /\ pc' = "evaluated"
    /\ UNCHANGED <<grid, seq, max_size, node, heap, stack, board, output,
                   choice>>

NextSeq == Evaluate

SpecSeq == InitSeq /\ [][NextSeq]_vars

\* How many tokens of s a left-to-right subsequence match has found in the
\* first k tokens of p.
RECURSIVE Matched(_, _, _)
Matched(s, p, k) ==
    IF k = 0
    THEN 0
    ELSE LET m == Matched(s, p, k - 1)
         IN  IF m < Len(s) /\ p[k] = s[m + 1] THEN m + 1 ELSE m

\* After the first token of s was found and before all of s is, an entry of
\* p is not the token sought.
MismatchAfterStart(s, p) ==
    \E k \in 1..Len(p) :
        LET m == Matched(s, p, k - 1)
        IN  m >= 1 /\ m < Len(s) /\ p[k] # s[m + 1]

\* C9: failed is reported exactly when the target is longer than maxSize
\* and the scan meets a mismatch after the first match; never for a target
\* of at most maxSize tokens, whatever room the buffer has left.
C9_FailedIffTooLong ==
    pc = "evaluated" =>
        /\ sequence_state.failed <=>
               (Len(seq[1]) > max_size /\ MismatchAfterStart(seq[1], grid[1]))
        /\ Len(seq[1]) <= max_size => ~sequence_state.failed

\* A target longer than the capacity reported failed though the Path leaves
\* room in the buffer.
C9_Witness ==
    /\ pc = "evaluated"
    /\ sequence_state.failed
    /\ Len(grid[1]) < max_size

(***************************************************************************)
(* The construction of a tree, one Node at a time.  Node.__init__ reads    *)
(* self.children, whose loop constructs the children one after the other,  *)
(* each wholly before the next.  A frame of the stack is a Node whose loop *)
(* is under way: the id of its Buffer, its axis, the candidates the loop   *)
(* has yet to take and the Buffers of the children appended so far.        *)
(***************************************************************************)
Frame(id, n) ==
    [buffer |-> id, selection_type |-> n.selection_type,
     candidates |-> CandidateList(n), children |-> <<>>]

\* The Node of a frame's kind on the Buffer object id of heap h.
NodeAt(h, id, selection_type) ==
    Node(Grid(grid), h[id], max_size, seq, selection_type)

\* The constructor of n raises before it builds a child.
NodeRaises(n) == InitRaises(n) \/ (ChoicesRead(n) /\ ChoicesRaises(n))

Top == stack[Len(stack)]

\* The targets of the trees built step by step: one of a single token,
\* under which a constructor may raise, and one of two tokens.
BuildTargets == {<< <<"55">> >>, << <<"55", "1C">> >>}

InitBuild ==
    /\ grid \in Boards
    /\ seq \in BuildTargets
    /\ max_size \in 1..MaxCap
    /\ node = <<>>
    /\ pc = "start"
    /\ sequence_state = <<>>
    /\ heap = <<>>
    /\ stack = <<>>
    /\ board = <<>>
    /\ output = <<>>
    /\ choice = <<>>

\* Node(grid=Grid(grid), unlock_sequences=seq, buffer_state=Buffer(), ...)
BuildRoot ==
    /\ pc = "start"
    /\ heap' = <<Buffer(<<>>)>>
    /\ LET root == NodeAt(heap', 1, "row")
       IN  IF NodeRaises(root)
           THEN pc' = "raised" /\ stack' = stack
           ELSE pc' = "building" /\ stack' = <<Frame(1, root)>>
    /\ UNCHANGED <<grid, seq, max_size, node, sequence_state, board, output,
                   choice>>

\* One turn of the loop of Node.children: self.buffer.add(candidate), and
\* the child's constructor up to its own loop.
BuildChild ==
    /\ pc = "building"
    /\ Len(Top.candidates) > 0
    /\ heap' = BufferAdd(heap, Top.buffer, Head(Top.candidates))
    /\ LET child == NodeAt(heap', Len(heap'),
                           NextSelectionType(Top.selection_type))
       IN  IF NodeRaises(child)
           THEN pc' = "raised" /\ stack' = stack
           ELSE /\ pc' = pc
                /\ stack' = Append(
                       [stack EXCEPT ![Len(stack)].candidates = Tail(@)],
                       Frame(Len(heap'), child))
    /\ UNCHANGED <<grid, seq, max_size, node, sequence_state, board, output,
                   choice>>

\* The loop is over: self._children is set, the constructor returns and the
\* parent appends the node to its children.  The root stays, with its
\* _children, when its constructor has returned.
BuildReturn ==
    /\ pc = "building"
    /\ Len(Top.candidates) = 0
    /\ IF Len(stack) = 1
       THEN pc' = "built" /\ stack' = stack
       ELSE /\ pc' = pc
            /\ stack' = [SubSeq(stack, 1, Len(stack) - 1)
                            EXCEPT ![Len(stack) - 1].children =
                                       Append(@, Top.buffer)]
    /\ UNCHANGED <<grid, seq, max_size, node, sequence_state, heap, board,
                   output, choice>>

\* root.children, read once the root is constructed: self._children is not
\* None, and is returned as it is.
ReadChildren ==
    /\ pc \in {"built", "read"}
    /\ output' = Top.children
    /\ pc' = "read"
    /\ UNCHANGED <<grid, seq, max_size, node, sequence_state, heap, stack,
                   board, choice>>

NextBuild == BuildRoot \/ BuildChild \/ BuildReturn \/ ReadChildren

SpecBuild == InitBuild /\ [][NextBuild]_vars

\* C8: a step of the construction leaves the state of every Buffer object
\* that exists as it was, the receiver of add and the Buffers of the
\* siblings included; the Buffer that add returns is the receiver's cells
\* with the candidate appended, one longer than the receiver.
C8_AddLeavesReceiver ==
    [][/\ Len(heap') >= Len(heap)
       /\ \A id \in 1..Len(heap) : heap'[id] = heap[id]
       /\ (pc = "building" /\ Len(heap') # Len(heap)) =>
              /\ Len(heap') = Len(heap) + 1
              /\ heap'[Len(heap')]
                     = heap[Top.buffer] \o <<Head(Top.candidates)>>
              /\ Len(heap'[Len(heap')]) = Len(heap[Top.buffer]) + 1]_vars

\* The root with two children built and grandchildren under them: its
\* Buffer is still empty and the children's hold one cell each.
C8_Witness ==
    /\ pc = "building"
    /\ Len(stack) = 1
    /\ Len(Top.children) = 2
    /\ Len(heap) > 3
    /\ heap[Top.buffer] = <<>>
    /\ Len(heap[Top.children[1]]) = 1
    /\ Len(heap[Top.children[2]]) = 1
    /\ heap[Top.children[1]] # heap[Top.children[2]]

(***************************************************************************)
(* The Grid on its own: a Grid is constructed from a rectangular matrix,   *)
(* square or not, and one of its row or column views is then read.         *)
(***************************************************************************)
Matrices ==
    UNION {[1..r -> [1..c -> Tokens]] : r \in 1..MaxDim, c \in 1..MaxDim}

View(kind, index, raised, tiles) ==
    [view |-> kind, index |-> index, raised |-> raised, tiles |-> tiles]

InitGrid ==
    /\ grid \in Matrices
    /\ seq = <<>>
    /\ max_size = 0
    /\ node = <<>>
    /\ pc = "start"
    /\ sequence_state = <<>>
    /\ heap = <<>>
    /\ stack = <<>>
    /\ board = <<>>
    /\ output = <<>>
    /\ choice = <<>>

\* board = Grid(grid)
MakeGrid ==
    /\ pc = "start"
    /\ board' = Grid(grid)
    /\ pc' = "grid"
    /\ UNCHANGED <<grid, seq, max_size, node, sequence_state, heap, stack,
                   output, choice>>

\* board.get_row(i), for a row index i of the matrix
ReadRow ==
    /\ pc = "grid"
    /\ \E i \in 0..(Len(grid) - 1) :
           output' = View("row", i, FALSE, GetRow(board, i))
    /\ pc' = "viewed"
    /\ UNCHANGED <<grid, seq, max_size, node, sequence_state, heap, stack,
                   board, choice>>

\* board.get_col(j), for a column index j of the matrix
ReadCol ==
    /\ pc = "grid"
    /\ \E j \in 0..(Len(grid[1]) - 1) :
           IF GetColRaises(board, j)
           THEN /\ output' = View("col", j, TRUE, <<>>)
                /\ pc' = "raised"
           ELSE /\ output' = View("col", j, FALSE, GetCol(board, j))
                /\ pc' = "viewed"
    /\ UNCHANGED <<grid, seq, max_size, node, sequence_state, heap, stack,
                   board, choice>>

NextGrid ==
    \/ MakeGrid
    \/ ReadRow
    \/ ReadCol

SpecGrid == InitGrid /\ [][NextGrid]_vars

\* The number of lists of views that hold the cell at (r, c).
Holders(views, r, c) ==
    Cardinality({v \in 1..Len(views) :
        \E k \in 1..Len(views[v]) :
            views[v][k].row = r /\ views[v][k].col = c})

\* C11: for a Grid built from any rectangular R x C matrix, reading row i
\* (i < R) gives the cells of matrix row i in column order, reading column j
\* (j < C) gives the cells of matrix column j in row order and never raises,
\* and every cell of the matrix is in exactly one row view and exactly one
\* column view.
C11_GridViews ==
    /\ pc = "raised" => output.view # "col"
    /\ pc = "viewed" /\ output.view = "row"
           => output.tiles = MatrixRow(grid, output.index)
    /\ pc = "viewed" /\ output.view = "col"
           => output.tiles = MatrixCol(grid, output.index)
    /\ pc = "grid"
           => \A r \in 0..(Len(grid) - 1), c \in 0..(Len(grid[1]) - 1) :
                  /\ Holders(board.rows, r, c) = 1
                  /\ Holders(board.columns, r, c) = 1

(***************************************************************************)
(* Construction from malformed input: a matrix whose rows differ in        *)
(* length, an empty target, or a capacity of zero or less.  The root is    *)
(* constructed and the tree descended as in Spec.                          *)
(***************************************************************************)
RaggedMatrices ==
    {m \in UNION {[1..r -> SeqsOver(Tokens, 1, MaxDim)] : r \in 2..MaxDim} :
        \E i, j \in 1..Len(m) : Len(m[i]) # Len(m[j])}

InitMalformed ==
    /\ \/ /\ grid \in RaggedMatrices
          /\ seq \in TargetLists
          /\ max_size \in 1..MaxCap
       \/ /\ grid \in Boards
          /\ seq = << <<>> >>
          /\ max_size \in 1..MaxCap
       \/ /\ grid \in Boards
          /\ seq \in TargetLists
          /\ max_size \in {-1, 0}
    /\ node = <<>>
    /\ pc = "start"
    /\ sequence_state = <<>>
    /\ heap = <<>>
    /\ stack = <<>>
    /\ board = <<>>
    /\ output = <<>>
    /\ choice = <<>>

SpecMalformed == InitMalformed /\ [][Next]_vars

\* C12: construction from malformed input (rows of different lengths, an
\* empty target, a capacity of zero or less) ends in an error: no root and
\* no tree is produced, and no node whose Path is longer than the capacity
\* is ever created.
C12_MalformedRejected ==
    /\ pc # "start" => pc = "raised"
    /\ pc = "ready" => Len(node.buffer) <= max_size

(***************************************************************************)
(* play: the root is constructed and validated, and the loop then shows    *)
(* the current node, reads an index and moves to that child.               *)
(***************************************************************************)
\* What int(input(...)) may return: the indexes of children, an index past
\* the end of any list of children, and a negative number.
ChoiceInputs == (0 - 1)..MaxDim

\* The puzzles played have one target, of one or two tokens.
PlayTargets == {<<s>> : s \in SeqsOver(Tokens, 1, 2)}

\* One record per thing printed: "board" for _print_states, _print_matrix and
\* _print_buffer of a node, "choices" for the enumeration of its children,
\* "prompt" for input's prompt, "win" and "loss" for the two closing lines.
Printed(event, n) == [event |-> event, buffer |-> n.buffer]

\* choices[choice] raises IndexError outside -len(choices)..len(choices)-1.
IndexRaises(list, index) == index >= Len(list) \/ index < 0 - Len(list)

\* choices[choice]: a negative index counts from the end of the list.
IndexInto(list, index) ==
    IF index >= 0 THEN list[index + 1] ELSE list[Len(list) + index + 1]

InitPlay ==
    /\ grid \in Boards
    /\ seq \in PlayTargets
    /\ max_size \in 1..MaxCap
    /\ node = <<>>
    /\ pc = "start"
    /\ sequence_state = <<>>
    /\ heap = <<>>
    /\ stack = <<>>
    /\ board = <<>>
    /\ output = <<>>
    /\ choice = <<>>

PlayStartUnchecked ==
    /\ pc = "start"
    /\ LET root == Root(grid, seq, max_size)
       IN  IF TreeRaises(root)
           THEN pc' = "raised" /\ node' = node
           ELSE pc' = "loop" /\ node' = root
    /\ UNCHANGED <<grid, seq, max_size, sequence_state, heap, stack, board,
                   output, choice>>

\* node = Node(...); if _validate_node(node) is not True: raise ValueError
PlayStart ==
    /\ pc = "start"
    /\ LET root == Root(grid, seq, max_size)
       IN  IF TreeRaises(root)
           THEN pc' = "raised" /\ node' = node
           ELSE IF ~ValidateNode(root)
           THEN pc' = "refused" /\ node' = node
           ELSE pc' = "loop" /\ node' = root
    /\ UNCHANGED <<grid, seq, max_size, sequence_state, heap, stack, board,
                   output, choice>>

\* while node.children: print the node and its children, then prompt
Show ==
    /\ pc = "loop"
    /\ Len(Children(node)) > 0
    /\ output' = output \o <<Printed("board", node), Printed("choices", node),
                             Printed("prompt", node)>>
    /\ pc' = "prompt"
    /\ UNCHANGED <<grid, seq, max_size, node, sequence_state, heap, stack,
                   board, choice>>

\* choice = int(input(...)); node = choices[choice]; the win if the new node
\* is complete, the next turn of the loop otherwise
Choose ==
    /\ pc = "prompt"
    /\ LET choices == Children(node)
       IN  \E c \in ChoiceInputs :
               /\ choice' = c
               /\ IF IndexRaises(choices, c)
                  THEN /\ pc' = "crashed"
                       /\ UNCHANGED <<node, output>>
                  ELSE LET n == IndexInto(choices, c)
                       IN  /\ node' = n
                           /\ IF IsComplete(n)
                              THEN /\ output' = output \o
                                       <<Printed("board", n), Printed("win", n)>>
                                   /\ pc' = "won"
                              ELSE /\ output' = output
                                   /\ pc' = "loop"
    /\ UNCHANGED <<grid, seq, max_size, sequence_state, heap, stack, board>>

\* the loop's test fails: print('You suck :(')
Lose ==
    /\ pc = "loop"
    /\ Len(Children(node)) = 0
    /\ output' = Append(output, Printed("loss", node))
    /\ pc' = "lost"
    /\ UNCHANGED <<grid, seq, max_size, node, sequence_state, heap, stack,
                   board, choice>>

NextPlay ==
    \/ PlayStart
    \/ Show
    \/ Choose
    \/ Lose

SpecPlay == InitPlay /\ [][NextPlay]_vars

\* Some node of the subtree of n, n included, is complete.
RECURSIVE SomeComplete(_)
SomeComplete(n) ==
    \/ IsComplete(n)
    \/ LET children == Children(n)
       IN  \E i \in 1..Len(children) : SomeComplete(children[i])

\* C13: play checks the root before anything else.  When no node of the
\* tree is complete it refuses: it raises its error with nothing printed,
\* and no step follows (no board, no prompt).  When some node is complete
\* the loop begins at the root with nothing printed yet, and the first
\* thing ever printed is the root's board.
C13_CheckedBeforePlay ==
    [][/\ pc = "start" =>
            LET root == Root(grid, seq, max_size)
            IN  /\ output' = <<>>
                /\ pc' \in {"raised", "refused", "loop"}
                /\ pc' = "raised" <=> TreeRaises(root)
                /\ pc' = "refused" => ~SomeComplete(root)
                /\ pc' = "loop" => SomeComplete(root) /\ node' = root
       /\ pc # "refused"
       /\ output = <<>> /\ output' # <<>> =>
            /\ pc = "loop"
            /\ output'[1] = Printed("board", Root(grid, seq, max_size))
      ]_vars

C13_Witness ==
    /\ pc = "refused"
    /\ output = <<>>
    /\ Len(grid) = 2
    /\ \E r, c \in 1..2 : grid[r][c] = seq[1][1]

\* C14: at the prompt, an index outside 0..len(children)-1 is reported and
\* asked for again with the current node unchanged: it never moves play to
\* another node and never ends the loop.
C14_BadIndexReprompts ==
    [][pc = "prompt" /\ choice' \notin 0..(Len(Children(node)) - 1)
           => pc' = "prompt" /\ node' = node]_vars

\* play has got past its check of the root.
Started == pc \in {"loop", "prompt", "won", "lost", "crashed"}

\* C18: once started, the loop of play stops exactly when the current node
\* is complete (the win) or has no children (the loss): it never stops at a
\* node that is incomplete and has children, never prompts at a complete or
\* childless node, never reports the loss at a complete node, and has taken
\* at most max_size selections.
C18_StopsAtWinOrLoss ==
    Started =>
        LET children == Children(node)
        IN  /\ pc \in {"won", "lost", "crashed"}
                   => IsComplete(node) \/ Len(children) = 0
            /\ pc = "won" => IsComplete(node)
            /\ pc = "lost" => ~IsComplete(node) /\ Len(children) = 0
            /\ pc = "prompt" => ~IsComplete(node) /\ Len(children) > 0
            /\ pc = "loop" => ~IsComplete(node)
            /\ Len(node.buffer) <= max_size

(***************************************************************************)
(* C15                                                                     *)
(***************************************************************************)
\* The legal choices of a Path on a matrix under an axis: the first row for
\* the empty Path, otherwise the cells of the last cell's row (axis row) or
\* column (axis col) that are not in the Path, in the matrix's order.
LegalCells(matrix, path, axis) ==
    IF Len(path) = 0
    THEN MatrixRow(matrix, 0)
    ELSE Without(IF axis = "row"
                 THEN MatrixRow(matrix, path[Len(path)].row)
                 ELSE MatrixCol(matrix, path[Len(path)].col),
                 path)

\* C15: a node whose Path is shorter than maxSize - 1 has one child per
\* legal choice, in the order of the legal choices; the i-th child's Path is
\* the node's Path with the i-th legal cell appended, its axis is the
\* opposite of the node's, and its board, capacity and targets are the
\* node's.
C15_ChildPerLegalChoice ==
    (Ready /\ Len(node.buffer) < node.max_size - 1) =>
        LET legal == LegalCells(grid, node.buffer, node.selection_type)
            children == Children(node)
        IN  /\ Len(children) = Len(legal)
            /\ \A i \in 1..Len(children) :
                   /\ children[i].buffer = Append(node.buffer, legal[i])
                   /\ children[i].selection_type # node.selection_type
                   /\ children[i].selection_type \in {"row", "col"}
                   /\ children[i].grid = node.grid
                   /\ children[i].max_size = node.max_size
                   /\ children[i].unlock_sequences = node.unlock_sequences

\* A node with two legal choices and room for both.
C15_Witness ==
    /\ Ready
    /\ Len(node.buffer) < node.max_size - 1
    /\ Len(Children(node)) = 2
    /\ Children(node)[1].buffer # Children(node)[2].buffer

(***************************************************************************)
(* _solve: the root is constructed, the tree descended to some node, and   *)
(* the solver run on that node.                                            *)
(***************************************************************************)
InitSolve ==
    /\ grid \in Boards
    /\ seq \in PlayTargets
    /\ max_size \in 1..MaxCap
    /\ node = <<>>
    /\ pc = "start"
    /\ sequence_state = <<>>
    /\ heap = <<>>
    /\ stack = <<>>
    /\ board = <<>>
    /\ output = <<>>
    /\ choice = <<>>

\* output = _solve(node)
RunSolve ==
    /\ pc = "ready"
    /\ output' = Solve(node)
    /\ pc' = "solved"
    /\ UNCHANGED <<grid, seq, max_size, node, sequence_state, heap, stack,
                   board, choice>>

NextSolve ==
    \/ Construct
    \/ Select
    \/ RunSolve

SpecSolve == InitSolve /\ [][NextSolve]_vars

\* The nodes of the subtree of n, n included.
RECURSIVE Subtree(_)
Subtree(n) ==
    LET children == Children(n)
    IN  {n} \cup UNION {Subtree(children[i]) : i \in 1..Len(children)}

IsPrefix(p, q) == Len(p) <= Len(q) /\ SubSeq(q, 1, Len(p)) = p

\* The position, among the children of the node of Path prefix, of the child
\* that appends cell.
ChildIndex(nodes, prefix, cell) ==
    LET parent == CHOOSE m \in nodes : m.buffer = prefix
        children == Children(parent)
    IN  CHOOSE i \in 1..Len(children) :
            children[i].buffer = Append(prefix, cell)

\* Depth-first pre-order on the Paths of nodes: an ancestor comes before its
\* descendants, and where two Paths part, the one through the earlier child
\* comes first.
PreOrderBefore(nodes, p, q) ==
    /\ p # q
    /\ \/ IsPrefix(p, q)
       \/ /\ ~IsPrefix(q, p)
          /\ LET d == CHOOSE k \in 1..Len(p) :
                          /\ p[k] # q[k]
                          /\ \A j \in 1..(k - 1) : p[j] = q[j]
                 prefix == SubSeq(p, 1, d - 1)
             IN  ChildIndex(nodes, prefix, p[d])
                     < ChildIndex(nodes, prefix, q[d])

\* C16: the solver run on a node returns the Paths of exactly the complete
\* nodes of the node's subtree (the node included), each once, in
\* depth-first pre-order (each Path before the next one): no Path of an
\* incomplete node, no complete node left out, the complete nodes below a
\* complete node included.
C16_SolverListsCompleteNodes ==
    pc = "solved" =>
        LET nodes == Subtree(node)
            complete == {m.buffer : m \in {m \in nodes : IsComplete(m)}}
        IN  /\ {output[k] : k \in 1..Len(output)} = complete
            /\ Len(output) = Cardinality(complete)
            /\ \A k \in 1..(Len(output) - 1) :
                   PreOrderBefore(nodes, output[k], output[k + 1])

\* The solver has returned a complete node's Path followed by the Path of a
\* complete node below it, and Paths from two different branches.
C16_Witness ==
    /\ pc = "solved"
    /\ \E j, k \in 1..Len(output) :
           j < k /\ output[j] # output[k] /\ IsPrefix(output[j], output[k])
    /\ \E j, k \in 1..Len(output) :
           ~IsPrefix(output[j], output[k]) /\ ~IsPrefix(output[k], output[j])

(***************************************************************************)
(* C17                                                                     *)
(***************************************************************************)
\* C17: the children of a node are computed lazily and at most once.  When
\* the root's constructor returns no other node has been created (the only
\* Buffer is the root's), and once the children have been read, reading
\* them again creates no node and returns the same children.
C17_LazyChildrenOnce ==
    [][/\ pc' = "built" => Len(heap') = 1
       /\ pc = "read" => heap' = heap /\ output' = output]_vars

(***************************************************************************)
(* Progress along the branches of a tree.  The puzzles have a target of    *)
(* two tokens, which a Path can complete, alone or together with a target  *)
(* of MaxCap + 1 equal tokens, which is too long for every capacity and    *)
(* fails at the first other token after its first match.                   *)
(***************************************************************************)
ShortTargets == SeqsOver(Tokens, 2, 2)

LongTargets == {[i \in 1..(MaxCap + 1) |-> t] : t \in Tokens}

ProgressTargets ==
    {<<s>> : s \in ShortTargets}
        \cup {<<s, l>> : s \in ShortTargets, l \in LongTargets}

InitProgress ==
    /\ grid \in Boards
    /\ seq \in ProgressTargets
    /\ max_size \in 1..MaxCap
    /\ node = <<>>
    /\ pc = "start"
    /\ sequence_state = <<>>
    /\ heap = <<>>
    /\ stack = <<>>
    /\ board = <<>>
    /\ output = <<>>
    /\ choice = <<>>

SpecProgress == InitProgress /\ [][Next]_vars

\* C19: from a node to any of its children the matched count of no target
\* decreases, a target that has succeeded stays succeeded and a target that
\* has failed stays failed; a child of a complete node is complete.  By
\* induction along a branch the same holds for every descendant.
C19_ProgressMonotone ==
    [][(pc = "ready" /\ pc' = "ready") =>
           /\ \A i \in 1..Len(node.sequence_states) :
                  LET parent == node.sequence_states[i]
                      child == node'.sequence_states[i]
                  IN  /\ child.solved_count >= parent.solved_count
                      /\ parent.success => child.success
                      /\ parent.failed => child.failed
           /\ IsComplete(node) => IsComplete(node')]_vars

\* A node whose parent already had its first target succeeded and its second
\* failed.
C19_Witness ==
    /\ Ready
    /\ Len(seq) = 2
    /\ Len(node.buffer) = 3
    /\ node.sequence_states[1].success
    /\ node.sequence_states[2].failed
    /\ SequenceState(seq[1], SubSeq(node.buffer, 1, 2), max_size).success
    /\ SequenceState(seq[2], SubSeq(node.buffer, 1, 2), max_size).failed

(***************************************************************************)
(* C20                                                                     *)
(***************************************************************************)
\* No target is longer than the capacity.
TargetsFit == \A i \in 1..Len(seq) : Len(seq[i]) <= max_size

====
